---- MODULE Spec2Model ----
(***************************************************************************)
(* A model of src/bspline/lib/BSpline.cpp: the BSplineBase domain          *)
(* configuration (setDomain, Setup, calculateQ, addP, factor, nodes) and   *)
(* the BSpline fit built from it (constructor, coefficient, evaluate,      *)
(* curve).                                                                 *)
(*                                                                         *)
(* Numbers.  A C++ float is modelled as an exact rational <<n, d>> with    *)
(* d > 0 in lowest terms; rounding, infinities and NaN are not modelled,   *)
(* except that a division by DX = 0 is followed through to what the        *)
(* comparison made on its result yields.  An entry of the matrix Q is a    *)
(* pair [q, p]: q counts units of DX*alpha/160 (the entries of qparts are  *)
(* whole multiples of 1/160, and PI makes alpha no rational), p is the     *)
(* rational data-fit part; the entry's value is q*DX*alpha/160 + p.        *)
(***************************************************************************)
EXTENDS Integers, Sequences, FiniteSets, TLC

VARIABLES objs, heap, ret, halted, failed, calls, srch, asm

vars == <<objs, heap, ret, halted, failed, calls, srch, asm>>

\* ------------------------------------------------------------------ bounds

\* Longest ramp of samples a configuration is built from.
MaxNX == 11
\* setDomain calls made after the construction of the first object.
MaxCalls == 1
\* Objects alive at once: a configuration, its copies and its fits.
MaxObjs == 3
\* Longest sample sequence the grid search is run on.
MaxSearchNX == 14

\* ------------------------------------------------------------- arithmetic

Abs(n) == IF n < 0 THEN -n ELSE n

Min(a, b) == IF a < b THEN a ELSE b

Max(a, b) == IF a > b THEN a ELSE b

RECURSIVE GCD(_, _)
GCD(a, b) == IF b = 0 THEN a ELSE GCD(b, a % b)

Rat(n, d) ==
    LET Reduced(g, s) == <<(s * n) \div g, (s * d) \div g>>
    IN  Reduced(GCD(Abs(n), Abs(d)), IF d < 0 THEN -1 ELSE 1)

FInt(n) == <<n, 1>>

F0 == FInt(0)

FAdd(a, b) ==
    LET Over(l) == Rat(a[1] * (l \div a[2]) + b[1] * (l \div b[2]), l)
    IN  Over((a[2] \div GCD(a[2], b[2])) * b[2])

FNeg(a) == <<-a[1], a[2]>>

FSub(a, b) == FAdd(a, FNeg(b))

FMul(a, b) ==
    LET Cross(g1, g2) ==
            <<(a[1] \div g1) * (b[1] \div g2), (a[2] \div g2) * (b[2] \div g1)>>
    IN  IF a[1] = 0 \/ b[1] = 0 THEN F0
        ELSE Cross(GCD(Abs(a[1]), b[2]), GCD(Abs(b[1]), a[2]))

\* b # 0
FDiv(a, b) == FMul(a, Rat(b[2], b[1]))

FLt(a, b) == a[1] * b[2] < b[1] * a[2]

FLe(a, b) == a[1] * b[2] <= b[1] * a[2]

FAbs(a) == <<Abs(a[1]), a[2]>>

\* (int) f: truncation toward zero.
FTrunc(a) == IF a[1] >= 0 THEN a[1] \div a[2] ELSE -((-a[1]) \div a[2])

\* ------------------------------------------------------------ the search

\* Ratio with the density taken per interval, NX / ni, not per node.
RatioPerInterval(ni, NX, xmin, xmax, waveLength) ==
    LET Out(deltax, rd) ==
            [deltax |-> deltax, ratiof |-> FDiv(deltax, waveLength),
             rd |-> rd, ok |-> FLe(FInt(1), rd)]
    IN  Out(FDiv(FSub(xmax, xmin), FInt(ni)), Rat(NX, ni))

\* inline int Ratio(int &ni, float &deltax, float &ratiof, float *ratiod)
Ratio(ni, NX, xmin, xmax, waveLength) ==
    LET Out(deltax, rd) ==
            [deltax |-> deltax, ratiof |-> FDiv(deltax, waveLength),
             rd |-> rd, ok |-> FLe(FInt(1), rd)]
    IN  Out(FDiv(FSub(xmax, xmin), FInt(ni)), Rat(NX, ni + 1))

RECURSIVE ScanMin(_, _, _)
RECURSIVE ScanMax(_, _, _)
\* The scan of Setup: xmin = xmax = X[0]; for (i = 1; ...) if (X[i] < xmin)
\* xmin = X[i]; else if (X[i] > xmax) xmax = X[i].  Sequences are 1-based.
ScanMin(X, i, lo) ==
    IF i > Len(X) THEN lo
    ELSE ScanMin(X, i + 1, IF FLt(X[i], lo) THEN X[i] ELSE lo)

ScanMax(X, i, mm) ==
    IF i > Len(X) THEN mm[2]
    ELSE ScanMax(X, i + 1,
                 IF FLt(X[i], mm[1]) THEN <<X[i], mm[2]>>
                 ELSE IF FLt(mm[2], X[i]) THEN <<mm[1], X[i]>>
                 ELSE mm)

\* The first ni of the search, before its first increment.
FirstNi == 9

\* Setup up to the choice between its branches, with one node more than
\* samples where there is no wavelength: ni = NX + 1.
SetupBeginExtraNode(X, waveLength) ==
    LET Scanned(NX, xmin, xmax) ==
            [NX |-> NX, xmin |-> xmin, xmax |-> xmax, wl |-> waveLength,
             ni |-> FirstNi, deltax |-> F0, ratiof |-> F0, ratiod |-> F0,
             incs |-> 0, ratios |-> 0, why |-> "none", cond |-> TRUE]
        Branch(base, span) ==
            IF FLt(span, waveLength)
            THEN [base EXCEPT !.why = "span"] @@ [phase |-> "failed"]
            ELSE IF waveLength = F0
            THEN [base EXCEPT !.ni = base.NX + 1,
                              !.deltax = FDiv(span, FInt(base.NX + 1))]
                 @@ [phase |-> "done"]
            ELSE base @@ [phase |-> "coarse"]
        From(base) == Branch(base, FSub(base.xmax, base.xmin))
    IN  From(Scanned(Len(X), ScanMin(X, 2, X[1]),
                     ScanMax(X, 2, <<X[1], X[1]>>)))

\* Setup, up to the choice between the two branches.
SetupBegin(X, waveLength) ==
    LET Scanned(NX, xmin, xmax) ==
            [NX |-> NX, xmin |-> xmin, xmax |-> xmax, wl |-> waveLength,
             ni |-> FirstNi, deltax |-> F0, ratiof |-> F0, ratiod |-> F0,
             incs |-> 0, ratios |-> 0, why |-> "none", cond |-> TRUE]
        Branch(base, span) ==
            IF FLt(span, waveLength)
            THEN [base EXCEPT !.why = "span"] @@ [phase |-> "failed"]
            ELSE IF waveLength = F0
            THEN [base EXCEPT !.ni = base.NX,
                              !.deltax = FDiv(span, FInt(base.NX))]
                 @@ [phase |-> "done"]
            ELSE base @@ [phase |-> "coarse"]
        From(base) == Branch(base, FSub(base.xmax, base.xmin))
    IN  From(Scanned(Len(X), ScanMin(X, 2, X[1]),
                     ScanMax(X, 2, <<X[1], X[1]>>)))

\* One pass of: do { if (! Ratio (++ni, deltax, ratiof)) return false; }
\*              while (ratiof > fmin);
CoarseStep(s) ==
    LET After(r, t) ==
            IF ~r.ok THEN [t EXCEPT !.phase = "failed", !.why = "sparse"]
            ELSE IF FLt(FInt(2), r.ratiof) THEN t
            ELSE [t EXCEPT !.phase = "refine"]
        With(r) ==
            After(r, [s EXCEPT !.ni = @ + 1, !.deltax = r.deltax,
                               !.ratiof = r.ratiof, !.incs = @ + 1,
                               !.ratios = @ + 1])
    IN  With(Ratio(s.ni + 1, s.NX, s.xmin, s.xmax, s.wl))

\* A pass of the refinement that breaks without stepping ni back.
RefineStepNoBack(s) ==
    LET After(r, t) ==
            IF ~r.ok \/ FLt(FInt(15), r.ratiof)
            THEN [t EXCEPT !.phase = "done",
                           !.why = IF ~r.ok THEN "density" ELSE "ratiof"]
            ELSE IF FLt(r.ratiof, FInt(4)) \/ FLt(FInt(2), r.rd) THEN t
            ELSE [t EXCEPT !.phase = "done", !.why = "cond", !.cond = FALSE]
        With(r) ==
            After(r, [s EXCEPT !.ni = @ + 1, !.deltax = r.deltax,
                               !.ratiof = r.ratiof, !.ratiod = r.rd,
                               !.incs = @ + 1, !.ratios = @ + 1])
    IN  With(Ratio(s.ni + 1, s.NX, s.xmin, s.xmax, s.wl))

\* One pass of: do { if (! Ratio (++ni, deltax, ratiof, &ratiod) ||
\*   ratiof > 15.0) { Ratio (--ni, deltax, ratiof); break; } }
\*   while (ratiof < 4 || ratiod > 2.0);
RefineStep(s) ==
    LET Back(r, t, b) ==
            [t EXCEPT !.ni = @ - 1, !.deltax = b.deltax, !.ratiof = b.ratiof,
                      !.ratios = @ + 1, !.phase = "done",
                      !.why = IF ~r.ok THEN "density" ELSE "ratiof"]
        After(r, t) ==
            IF ~r.ok \/ FLt(FInt(15), r.ratiof)
            THEN Back(r, t, Ratio(s.ni, s.NX, s.xmin, s.xmax, s.wl))
            ELSE IF FLt(r.ratiof, FInt(4)) \/ FLt(FInt(2), r.rd) THEN t
            ELSE [t EXCEPT !.phase = "done", !.why = "cond", !.cond = FALSE]
        With(r) ==
            After(r, [s EXCEPT !.ni = @ + 1, !.deltax = r.deltax,
                               !.ratiof = r.ratiof, !.ratiod = r.rd,
                               !.incs = @ + 1, !.ratios = @ + 1])
    IN  With(Ratio(s.ni + 1, s.NX, s.xmin, s.xmax, s.wl))

SetupStep(s) == IF s.phase = "coarse" THEN CoarseStep(s) ELSE RefineStep(s)

RECURSIVE SetupRun(_)
SetupRun(s) ==
    IF s.phase \in {"done", "failed"} THEN s ELSE SetupRun(SetupStep(s))

\* bool BSplineBase::Setup(): the final record; phase = "done" is true.
Setup(X, waveLength) == SetupRun(SetupBegin(X, waveLength))

\* ------------------------------------------------------------- the basis

\* const float BSplineBase::BoundaryConditions[3][4]
BoundaryConditions ==
    << <<-4, -1, -1, -4>>,
       << 0,  1,  1,  0>>,
       << 2, -1, -1,  2>> >>

\* qparts[4][4] of qDelta, each entry times 160.
qparts ==
    << <<18, 102, 102,  18>>,
       << 0,  21, -87,  21>>,
       << 0,   0, -36, -36>>,
       << 0,   0,   0,  -3>> >>

\* float BSplineBase::Alpha(float wl): (wl / (2 PI))^(2K), kept as the
\* rational c and the power pi of c / PI^pi.
Alpha(wl, K) ==
    LET Power(a2) ==
            IF K = 2 THEN [c |-> FMul(a2, a2), pi |-> 4]
            ELSE IF K = 3 THEN [c |-> FMul(a2, FMul(a2, a2)), pi |-> 6]
            ELSE [c |-> a2, pi |-> 2]
        Square(h) == Power(FMul(h, h))
    IN  Square(FDiv(wl, FInt(2)))

AlphaIsZero(alpha) == alpha.c = F0

\* inline float BSplineBase::Beta(int m).  Its two asserts are the bounds of
\* the table: an index outside it stops the evaluation.
Beta(m, c) ==
    IF m > 1 /\ m < c.M - 1 THEN 0
    ELSE LET k == IF m >= c.M - 1 THEN m - (c.M - 3) ELSE m
         IN  BoundaryConditions[c.BC + 1][k + 1]

\* The body of Basis before the boundary addend.  With DX = 0 the quotient
\* is NaN or an infinity, z < 2.0 is false and y stays 0.
Kernel(m, x, c) ==
    IF c.DX = F0 THEN F0
    ELSE
    LET Cube(v) == FMul(v, FMul(v, v))
        Inner(y, z1) == IF FLt(F0, z1) THEN FSub(y, Cube(z1)) ELSE y
        Outer(z2) == Inner(FMul(Rat(1, 4), Cube(z2)), FSub(z2, FInt(1)))
        Of(z) == IF FLt(z, FInt(2)) THEN Outer(FSub(FInt(2), z)) ELSE F0
    IN  Of(FAbs(FDiv(FSub(x, FAdd(c.xmin, FMul(FInt(m), c.DX))), c.DX)))

RECURSIVE Basis(_, _, _)
\* float BSplineBase::Basis(int m, float x)
Basis(m, x, c) ==
    LET Plus(y) ==
            IF m = 0 \/ m = 1
            THEN FAdd(y, FMul(FInt(Beta(m, c)), Basis(-1, x, c)))
            ELSE IF m = c.M - 1 \/ m = c.M
            THEN FAdd(y, FMul(FInt(Beta(m, c)), Basis(c.M + 1, x, c)))
            ELSE y
    IN  Plus(Kernel(m, x, c))

RECURSIVE SumQparts(_, _, _, _)
SumQparts(row, m1, m, hi) ==
    IF m >= hi THEN 0
    ELSE qparts[row + 1][m - m1 + 2 + 1] + SumQparts(row, m1, m + 1, hi)

\* float BSplineBase::qDelta(int m1, int m2), in units of DX*alpha/160.
qDelta(m1, m2, M) ==
    LET Ordered(a, b) ==
            IF b - a > 3 THEN 0
            ELSE SumQparts(b - a, a, Max(a - 2, 0), Min(a + 2, M))
    IN  Ordered(Min(m1, m2), Max(m1, m2))

\* ------------------------------------------------------------ the matrix

\* The half-bandwidth setup<>(BandedMatrix<float>&, int) asks for.
HalfBand == 3

\* The entries a BandedMatrix of M+1 rows stores.
Band(M) == {e \in (0..M) \X (0..M) : Abs(e[1] - e[2]) <= HalfBand}

\* setup (Q, M+1); Q = 0.0;
ZeroMatrix(M) == [e \in Band(M) |-> [q |-> 0, p |-> F0]]

\* The entries the first loop of calculateQ assigns.
InteriorWrites(M) ==
    LET IJ == {t \in (0..M) \X (1..3) : t[1] + t[2] <= M}
    IN  {<<i, i>> : i \in 0..M}
        \cup {<<t[1], t[1] + t[2]>> : t \in IJ}
        \cup {<<t[1] + t[2], t[1]>> : t \in IJ}

\* Q[i][i] = qDelta(i,i); Q[i][i+j] = Q[i+j][i] = qDelta (i, i+j);
InteriorFill(Q, M) ==
    [e \in DOMAIN Q |->
        IF e \in InteriorWrites(M)
        THEN [Q[e] EXCEPT !.q = qDelta(Min(e[1], e[2]), Max(e[1], e[2]), M)]
        ELSE Q[e]]

\* The (i, j) of the two boundary loops of calculateQ, in the code's order.
BoundaryPairs(M) ==
    [n \in 1..16 |->
        IF n <= 4 THEN <<"upper", 0, n - 1>>
        ELSE IF n <= 8 THEN <<"upper", 1, n - 4>>
        ELSE IF n <= 12 THEN <<"lower", M - 1, M - 1 - 3 + (n - 9)>>
        ELSE <<"lower", M, M - 3 + (n - 13)>>]

\* The q of one boundary pair.
BoundaryQ(side, i, j, c) ==
    LET Sum(b1, b2, M) ==
            IF side = "upper"
            THEN (IF i + 1 < 4 THEN b2 * qDelta(-1, i, M) ELSE 0)
                 + (IF j + 1 < 4 THEN b1 * qDelta(-1, j, M) ELSE 0)
                 + b1 * b2 * qDelta(-1, -1, M)
            ELSE (IF M + 1 - i < 4 THEN b2 * qDelta(i, M + 1, M) ELSE 0)
                 + (IF M + 1 - j < 4 THEN b1 * qDelta(j, M + 1, M) ELSE 0)
                 + b1 * b2 * qDelta(M + 1, M + 1, M)
    IN  Sum(Beta(i, c), Beta(j, c), c.M)

\* Q[i][j] += q, without the assignment to Q[j][i].
MirrorAddOneSided(Q, i, j, q) == [Q EXCEPT ![<<i, j>>].q = @ + q]

\* Q[j][i] = (Q[i][j] += q);
MirrorAdd(Q, i, j, q) ==
    [Q EXCEPT ![<<i, j>>].q = Q[<<i, j>>].q + q, ![<<j, i>>].q = Q[<<i, j>>].q + q]

BoundaryStep(Q, n, c) ==
    LET At(t) == MirrorAdd(Q, t[2], t[3], BoundaryQ(t[1], t[2], t[3], c))
    IN  At(BoundaryPairs(c.M)[n])

RECURSIVE BoundaryRun(_, _, _)
BoundaryRun(Q, n, c) ==
    IF n > 16 THEN Q ELSE BoundaryRun(BoundaryStep(Q, n, c), n + 1, c)

\* void BSplineBase::calculateQ()
calculateQ(c) ==
    IF AlphaIsZero(c.alpha) THEN ZeroMatrix(c.M)
    ELSE BoundaryRun(InteriorFill(ZeroMatrix(c.M), c.M), 1, c)

\* m = (int)((x - xmin) / DX).  With DX = 0 the float converted is NaN and
\* the conversion undefined: ub is the int the build happens to produce.
NodeOf(x, c, ub) ==
    IF c.DX = F0 THEN ub ELSE FTrunc(FDiv(FSub(x, c.xmin), c.DX))

\* The condition of the outer loop of addP, m <= min(M, m+2), read with the
\* loop's own variable m.
OuterCond(m, M) == m <= Min(M, m + 2)

\* for (m = max(0, m-2); m <= min(M, m+2); ++m): the m the body runs with.
OuterNodes(k, M) ==
    LET From(lo) == {m \in lo..(M + 1) : \A m2 \in lo..m : OuterCond(m2, M)}
    IN  From(Max(0, k - 2))

\* for (n = m+1; n <= min(M, m+3); ++n)
InnerNodes(m, M) == (m + 1)..Min(M, m + 3)

\* The (m, n) pairs of one sample: P[m][n] += sum; P[n][m] += sum;
InnerPairs(k, M) ==
    {<<m, n>> : m \in OuterNodes(k, M), n \in 0..M} \cap
    {e \in (0..(M + 1)) \X (0..M) : e[2] \in InnerNodes(e[1], M)}

\* The entries of P one sample adds to.
addPWrites(k, M) ==
    LET Of(outer, inner) ==
            {<<m, m>> : m \in outer} \cup inner
            \cup {<<e[2], e[1]>> : e \in inner}
    IN  Of(OuterNodes(k, M), InnerPairs(k, M))

\* The body of the sample loop of addP for the sample x.
addPSample(Q, x, c, ub) ==
    LET Over(W) ==
            [e \in DOMAIN Q |->
                IF e \in W
                THEN [Q[e] EXCEPT !.p =
                        FAdd(@, FMul(Basis(Min(e[1], e[2]), x, c),
                                     Basis(Max(e[1], e[2]), x, c)))]
                ELSE Q[e]]
    IN  Over(addPWrites(NodeOf(x, c, ub), c.M))

RECURSIVE addPRun(_, _, _, _)
addPRun(Q, i, c, ub) ==
    IF i > Len(c.X) THEN Q
    ELSE addPRun(addPSample(Q, c.X[i], c, ub), i + 1, c, ub)

\* void BSplineBase::addP()
addP(Q, c, ub) == addPRun(Q, 1, c, ub)

\* -------------------------------------------------- the search, step by step

Ramp(n, stride) == [i \in 1..n |-> FInt(stride * (i - 1))]

Reverse(X) == [i \in 1..Len(X) |-> X[Len(X) + 1 - i]]

SearchStrides == {1, 3}

SearchSamples ==
    LET fwd == {Ramp(n, k) : n \in 1..MaxSearchNX, k \in SearchStrides}
    IN  fwd \cup {Reverse(X) : X \in fwd}

SearchWaves == {F0, Rat(1, 4), FInt(1), Rat(3, 2), FInt(3), FInt(10), FInt(40)}

SrchIdle == [phase |-> "idle"]

AsmIdle == [pc |-> "idle"]

RetNone == [op |-> "none"]

InitSearch ==
    /\ objs = <<>> /\ heap = <<>> /\ ret = RetNone /\ halted = FALSE
    /\ failed = FALSE /\ calls = 0 /\ asm = AsmIdle
    /\ \E X \in SearchSamples, wl \in SearchWaves :
          srch = [phase |-> "start", X |-> X, wl |-> wl]

SearchBegin ==
    /\ srch.phase = "start"
    /\ srch' = SetupBegin(srch.X, srch.wl) @@ [X |-> srch.X]
    /\ UNCHANGED <<objs, heap, ret, halted, failed, calls, asm>>

SearchCoarse ==
    /\ srch.phase = "coarse"
    /\ srch' = CoarseStep(srch)
    /\ UNCHANGED <<objs, heap, ret, halted, failed, calls, asm>>

SearchRefine ==
    /\ srch.phase = "refine"
    /\ srch' = RefineStep(srch)
    /\ UNCHANGED <<objs, heap, ret, halted, failed, calls, asm>>

NextSearch == SearchBegin \/ SearchCoarse \/ SearchRefine

SpecSearch == InitSearch /\ [][NextSearch]_vars

\* ------------------------------------------------ the assembly, step by step

\* What setDomain stores before calculateQ: the grid of Setup, BC, alpha.
Config(X, wl, bc, K, g) ==
    [X |-> X, NX |-> Len(X), xmin |-> g.xmin, xmax |-> g.xmax,
     waveLength |-> wl, BC |-> bc, K |-> K, M |-> g.ni, DX |-> g.deltax,
     alpha |-> Alpha(wl, K)]

\* The degree K the constructor sets.
KInit == 1

\* What (int) NaN may come out as.
UBNodes == {-5, 0, 2, 50}

UBOf(c) == IF c.DX = F0 THEN UBNodes ELSE {0}

BCs == 0..2

AsmSamples ==
    {Ramp(n, 1) : n \in {1, 3, 10} \cup (11..MaxNX)}
    \cup {Ramp(11, 2), Reverse(Ramp(MaxNX, 1)), <<FInt(3), FInt(3)>>,
          <<FInt(2), FInt(0), FInt(1)>>}

AsmWaves == {F0, FInt(3), FInt(10)}

AsmInputs ==
    {in \in [X : AsmSamples, wl : AsmWaves, bc : BCs] :
        Setup(in.X, in.wl).phase = "done"}

InitAssemble ==
    /\ objs = <<>> /\ heap = <<>> /\ ret = RetNone /\ halted = FALSE
    /\ failed = FALSE /\ calls = 0 /\ srch = SrchIdle
    /\ \E in \in AsmInputs : asm = [pc |-> "start", in |-> in]

\* setDomain from Setup to the start of calculateQ.
AsmSetup ==
    /\ asm.pc = "start"
    /\ \E c \in {Config(asm.in.X, asm.in.wl, asm.in.bc, KInit,
                         Setup(asm.in.X, asm.in.wl))} :
          asm' = [pc |-> IF AlphaIsZero(c.alpha) THEN "addP" ELSE "interior",
                  in |-> asm.in, c |-> c, Q |-> ZeroMatrix(c.M),
                  written |-> {}, n |-> 1, i |-> 1, k |-> 0, outer |-> {},
                  inner |-> {}]
    /\ UNCHANGED <<objs, heap, ret, halted, failed, calls, srch>>

AsmInterior ==
    /\ asm.pc = "interior"
    /\ asm' = [asm EXCEPT !.pc = "boundary",
                          !.Q = InteriorFill(asm.Q, asm.c.M),
                          !.written = InteriorWrites(asm.c.M)]
    /\ UNCHANGED <<objs, heap, ret, halted, failed, calls, srch>>

AsmBoundary ==
    /\ asm.pc = "boundary"
    /\ \E t \in {BoundaryPairs(asm.c.M)[asm.n]} :
          asm' = [asm EXCEPT !.pc = IF asm.n = 16 THEN "addP" ELSE "boundary",
                             !.n = @ + 1,
                             !.Q = BoundaryStep(asm.Q, asm.n, asm.c),
                             !.written = @ \cup {<<t[2], t[3]>>, <<t[3], t[2]>>}]
    /\ UNCHANGED <<objs, heap, ret, halted, failed, calls, srch>>

AsmSample ==
    /\ asm.pc = "addP"
    /\ \E ub \in UBOf(asm.c), x \in {asm.c.X[asm.i]} :
          \E k \in {NodeOf(x, asm.c, ub)} :
             asm' = [asm EXCEPT !.pc = IF asm.i = asm.c.NX THEN "done" ELSE "addP",
                                !.i = @ + 1,
                                !.k = k,
                                !.outer = OuterNodes(k, asm.c.M),
                                !.inner = InnerPairs(k, asm.c.M),
                                !.Q = addPSample(asm.Q, x, asm.c, ub),
                                !.written = @ \cup addPWrites(k, asm.c.M)]
    /\ UNCHANGED <<objs, heap, ret, halted, failed, calls, srch>>

NextAssemble == AsmSetup \/ AsmInterior \/ AsmBoundary \/ AsmSample

SpecAssemble == InitAssemble /\ [][NextAssemble]_vars

\* ------------------------------------------------------------ the objects

\* A null sample pointer: no array at all.
Null == <<>>

\* struct BSplineBaseP as its default constructor leaves it.
NewBaseP == [Q |-> ZeroMatrix(-1), LU |-> [of |-> ZeroMatrix(-1), state |-> "empty"],
             index |-> <<>>, X |-> <<>>, Nodes |-> <<>>]

\* struct BSplineP as its default constructor leaves it.
NewP == [spline |-> <<>>, A |-> <<>>]

\* What the members no constructor initialises may hold.
Garbage ==
    {[xmin |-> F0, xmax |-> F0, alpha |-> [c |-> F0, pi |-> 2], waveLength |-> F0,
      DX |-> F0, M |-> 0, NX |-> 0, BC |-> 0],
     [xmin |-> FInt(5), xmax |-> FInt(-1), alpha |-> [c |-> FInt(7), pi |-> 2],
      waveLength |-> FInt(2), DX |-> FInt(1), M |-> -3, NX |-> 4, BC |-> 9]}

GarbageMeans == {F0, FInt(7)}

\* LU_factor_banded (base->LU, base->index, 3) of BSplineLU.h: the matrix
\* factored in place and the pivot indices, or a failure; which of the two
\* is the library's answer fok.
LUFactorBanded(LU, index, fok) ==
    IF fok THEN [rc |-> 0, LU |-> [of |-> LU.of, state |-> "factored"],
                 index |-> [i \in 1..Len(index) |-> i - 1]]
    ELSE [rc |-> 1, LU |-> [of |-> LU.of, state |-> "failed"], index |-> index]

\* bool BSplineBase::factor()
factor(Q, M, fok) ==
    LET Out(r) == [ok |-> r.rc = 0, LU |-> r.LU, index |-> r.index]
    IN  Out(LUFactorBanded([of |-> Q, state |-> "copied"],
                           [i \in 1..(M + 1) |-> 0], fok))

\* setDomain from Setup() to addP(): the grid, the configuration and P+Q.
Assemble(X, wl, bc, K, ub) ==
    LET Filled(g, c) == [g |-> g, c |-> c, Q |-> addP(calculateQ(c), c, ub)]
        On(g) == IF g.phase = "done" THEN Filled(g, Config(X, wl, bc, K, g))
                 ELSE [g |-> g]
    IN  On(Setup(X, wl))

Samples ==
    {Ramp(n, 1) : n \in {1, 5, 10} \cup (11..MaxNX)}
    \cup {<<FInt(3), FInt(3)>>, <<FInt(2), FInt(0), FInt(1)>>}

Waves == {F0, FInt(3), FInt(20)}

\* The library's answer and the int of (int) NaN vary only where they are
\* asked for.
Relevant(r) ==
    \E g \in {Setup(r.x, r.wl)} :
        /\ g.phase = "done" \/ r.fok
        /\ (g.phase = "done" /\ g.deltax = F0) \/ r.ub = 0

InputsOver(S, W, B) ==
    {[x |-> r.x, nx |-> Len(r.x), wl |-> r.wl, bc |-> r.bc, fok |-> r.fok,
      ub |-> r.ub] :
        r \in {r \in [x : S, wl : W, bc : B, fok : BOOLEAN, ub : UBNodes] :
                 Relevant(r)}}

ValidInputs == InputsOver(Samples, Waves, BCs)

\* The inputs of the fits: five samples with a wavelength beyond their span
\* or with one the search fails on, and three samples without a wavelength.
FitValidInputs ==
    InputsOver({Ramp(5, 1)}, {FInt(20), FInt(3)}, {0})
    \cup InputsOver({Ramp(3, 1)}, {F0}, {1})

\* One input for each test of the validation of setDomain.
InvalidInputs ==
    LET ok == [x |-> Ramp(5, 1), nx |-> 5, wl |-> F0, bc |-> 0, fok |-> TRUE,
               ub |-> 0]
    IN  {[ok EXCEPT !.nx = 0], [ok EXCEPT !.x = Null], [ok EXCEPT !.wl = FInt(-1)],
         [ok EXCEPT !.bc = -1], [ok EXCEPT !.bc = 3]}

AssembleKey(in) == [X |-> SubSeq(in.x, 1, in.nx), wl |-> in.wl, bc |-> in.bc,
                    ub |-> in.ub]

\* Assemble for every input of the model, computed once.
AssembleTable ==
    [k \in {AssembleKey(in) : in \in ValidInputs \cup FitValidInputs} |->
        Assemble(k.X, k.wl, k.bc, KInit, k.ub)]

\* bool BSplineBase::setDomain(const float *x, int nx, float wl, int bc) on
\* the object o whose base is cell: the object and the cell it leaves, the
\* value it returns and what it went through.  K is KInit in every object,
\* so Setup() to addP() is read from AssembleTable.
setDomain(o, cell, in) ==
    IF in.nx <= 0 \/ in.x = Null \/ FLt(in.wl, F0) \/ in.bc < 0 \/ in.bc > 2
    THEN [o |-> o, cell |-> cell, val |-> FALSE, valid |-> FALSE,
          setup |-> FALSE, ratios |-> 0]
    ELSE
    LET Factored(t, o1, c1, lu) ==
            [o |-> [o1 EXCEPT !.M = t.g.ni, !.DX = t.g.deltax,
                              !.alpha = Alpha(in.wl, o.K), !.OK = lu.ok],
             cell |-> [c1 EXCEPT !.Q = t.Q, !.LU = lu.LU, !.index = lu.index],
             val |-> lu.ok, valid |-> TRUE, setup |-> TRUE,
             ratios |-> t.g.ratios]
        Stored(t, o1, c1) ==
            IF t.g.phase = "done"
            THEN Factored(t, o1, c1, factor(t.Q, t.g.ni, in.fok))
            ELSE [o |-> o1, cell |-> c1, val |-> FALSE, valid |-> TRUE,
                  setup |-> FALSE, ratios |-> t.g.ratios]
        On(X, t) ==
            Stored(t,
                   [o EXCEPT !.OK = FALSE, !.waveLength = in.wl, !.BC = in.bc,
                             !.NX = Len(X), !.xmin = t.g.xmin,
                             !.xmax = t.g.xmax],
                   [cell EXCEPT !.X = X])
    IN  On(SubSeq(in.x, 1, in.nx), AssembleTable[AssembleKey(in)])

\* BSplineBase::BSplineBase(const float *x, int nx, float wl, int bc), up to
\* its call of setDomain: K(1), OK(false), base(new BSplineBaseP).
NewBase(g, b) ==
    [kind |-> "base", K |-> KInit, OK |-> FALSE, base |-> b, mean |-> F0,
     s |-> NewP] @@ g

\* const float *BSplineBase::nodes(int *nn): the cell it leaves, the list it
\* returns and whether its assert holds.
nodes(o, cell) ==
    LET Out(N) == [cell |-> [cell EXCEPT !.Nodes = N], val |-> N,
                   fresh |-> Len(cell.Nodes) = 0,
                   assertOk |-> Len(N) = o.M + 1]
    IN  Out(IF Len(cell.Nodes) = 0
            THEN [i \in 1..(o.M + 1) |-> FAdd(o.xmin, FMul(FInt(i - 1), o.DX))]
            ELSE cell.Nodes)

Busy == halted

Construct(in) ==
    /\ ~Busy /\ objs = <<>>
    /\ \E g \in Garbage :
          \E r \in {setDomain(NewBase(g, 1), NewBaseP, in)} :
              /\ objs' = <<r.o>>
              /\ heap' = <<r.cell>>
              /\ ret' = [op |-> "construct", target |-> 1, in |-> in,
                         val |-> r.val, valid |-> r.valid, setup |-> r.setup,
                         ratios |-> r.ratios]
              /\ failed' = ~r.val
    /\ UNCHANGED <<halted, calls, srch, asm>>

\* setDomain on a configuration or on a copy of one; the call on a fit is
\* left out.
SetDomain(id, in) ==
    /\ ~Busy /\ id \in 1..Len(objs) /\ objs[id].kind = "base"
    /\ calls < MaxCalls
    /\ \E r \in {setDomain(objs[id], heap[objs[id].base], in)} :
           /\ objs' = [objs EXCEPT ![id] = r.o]
           /\ heap' = [heap EXCEPT ![objs[id].base] = r.cell]
           /\ ret' = [op |-> "setDomain", target |-> id, in |-> in,
                      val |-> r.val, valid |-> r.valid, setup |-> r.setup,
                      ratios |-> r.ratios]
           /\ failed' = (failed \/ ~r.val)
    /\ calls' = calls + 1
    /\ UNCHANGED <<halted, srch, asm>>

Nodes(id) ==
    /\ ~Busy /\ id \in 1..Len(objs)
    /\ \E r \in {nodes(objs[id], heap[objs[id].base])} :
           /\ heap' = [heap EXCEPT ![objs[id].base] = r.cell]
           /\ ret' = [op |-> "nodes", target |-> id, val |-> r.val,
                      fresh |-> r.fresh, assertOk |-> r.assertOk]
           /\ halted' = ~r.assertOk
    /\ UNCHANGED <<objs, failed, calls, srch, asm>>

InitObjs ==
    /\ objs = <<>> /\ heap = <<>> /\ ret = RetNone /\ halted = FALSE
    /\ failed = FALSE /\ calls = 0 /\ srch = SrchIdle /\ asm = AsmIdle

Init == InitObjs

Next ==
    \/ \E in \in ValidInputs \cup InvalidInputs : Construct(in)
    \/ \E in \in ValidInputs \cup InvalidInputs : SetDomain(1, in)
    \/ Nodes(1)

Spec == Init /\ [][Next]_vars

\* --------------------------------------------------------------- the fits

\* BSplineBase::BSplineBase(const BSplineBase &bb) on the heap h: the new
\* object and the heap with its own copy of *bb.base.
CopyCtorShared(bb, h) ==
    [o |-> [kind |-> "base", K |-> bb.K, BC |-> bb.BC, OK |-> bb.OK,
            base |-> bb.base, xmin |-> bb.xmin, xmax |-> bb.xmax,
            alpha |-> bb.alpha, waveLength |-> bb.waveLength, DX |-> bb.DX,
            M |-> bb.M, NX |-> Len(h[bb.base].X), mean |-> F0, s |-> NewP],
     heap |-> h]

CopyCtor(bb, h) ==
    [o |-> [kind |-> "base", K |-> bb.K, BC |-> bb.BC, OK |-> bb.OK,
            base |-> Len(h) + 1, xmin |-> bb.xmin, xmax |-> bb.xmax,
            alpha |-> bb.alpha, waveLength |-> bb.waveLength, DX |-> bb.DX,
            M |-> bb.M, NX |-> Len(h[bb.base].X), mean |-> F0, s |-> NewP],
     heap |-> Append(h, h[bb.base])]

RECURSIVE SumSeq(_, _)
SumSeq(v, i) == IF i > Len(v) THEN F0 ELSE FAdd(v[i], SumSeq(v, i + 1))

\* mean = (sum of y[i]) / (float) NX
Mean(y, NX) == FDiv(SumSeq(SubSeq(y, 1, NX), 1), FInt(NX))

RECURSIVE RhsSum(_, _, _, _, _, _)
\* for (j = 0; j < NX; ++j) sum += (y[j] - mean) * Basis (m, base->X[j]);
RhsSum(o, X, y, mean, m, j) ==
    IF j > o.NX THEN F0
    ELSE FAdd(FMul(FSub(y[j], mean), Basis(m, X[j], o)),
              RhsSum(o, X, y, mean, m, j + 1))

\* B[m] for m = 0..M
RightHandSide(o, X, y, mean) ==
    [m1 \in 1..(o.M + 1) |-> RhsSum(o, X, y, mean, m1 - 1, 1)]

\* What the solve may hand back for the right-hand side B: the zero vector
\* for B = 0, else one of two vectors of the length of B.
SolveVec(B, pick) ==
    IF \A i \in 1..Len(B) : B[i] = F0 THEN [i \in 1..Len(B) |-> F0]
    ELSE IF pick = 1 THEN [i \in 1..Len(B) |-> FInt(1)]
    ELSE [i \in 1..Len(B) |-> Rat(-i, 2)]

\* LU_solve_banded (base->LU, base->index, luA) of BSplineLU.h: the solution
\* in place of the right-hand side, or a failure; sok and pick are the
\* library's answer.
LUSolveBanded(LU, index, B, sok, pick) ==
    IF sok THEN [rc |-> 0, x |-> SolveVec(B, pick)] ELSE [rc |-> 1, x |-> B]

\* BSpline::BSpline(BSplineBase &bb, const float *y): the object, the heap,
\* whether it assembled a right-hand side, whether it called the solve and
\* whether it went on to exit(1).  gm is what mean holds uninitialised.
BSplineCtor(bb, h, y, gm, sok, pick) ==
    LET Solved(b, o0, mean, r) ==
            [o |-> [o0 EXCEPT !.mean = mean,
                              !.s = [spline |-> <<>>, A |-> r.x]],
             heap |-> b.heap, rhs |-> TRUE, solved |-> TRUE, exit |-> r.rc # 0]
        Fit(b, o0, cell, mean) ==
            Solved(b, o0, mean,
                   LUSolveBanded(cell.LU, cell.index,
                                 RightHandSide(o0, cell.X, y, mean), sok, pick))
        Body(b, o0) ==
            IF ~o0.OK
            THEN [o |-> o0, heap |-> b.heap, rhs |-> FALSE, solved |-> FALSE,
                  exit |-> FALSE]
            ELSE Fit(b, o0, b.heap[o0.base], Mean(y, o0.NX))
        Base(b) == Body(b, [b.o EXCEPT !.kind = "spline", !.mean = gm])
    IN  Base(CopyCtor(bb, h))

RECURSIVE EvalSum(_, _, _)
\* for (int i = 0; i <= M; ++i) y += s->A[i] * Basis (i, x);
EvalSum(o, x, i) ==
    IF i > o.M THEN F0
    ELSE FAdd(FMul(o.s.A[i + 1], Basis(i, x, o)), EvalSum(o, x, i + 1))

\* float BSpline::evaluate(float x) with the mean added whether or not the
\* object is OK.
evaluateUnguarded(o, x) ==
    IF o.OK THEN FAdd(EvalSum(o, x, 0), o.mean) ELSE o.mean

\* float BSpline::evaluate(float x)
evaluate(o, x) ==
    IF o.OK THEN FAdd(EvalSum(o, x, 0), o.mean) ELSE F0

\* float BSpline::coefficient(int n)
coefficient(o, n) ==
    IF o.OK /\ 0 <= n /\ n <= o.M THEN o.s.A[n + 1] ELSE F0

\* const float *BSpline::curve(int *nx): the object it leaves and the list
\* it returns, null for the pointer 0.
curve(o) ==
    IF ~o.OK THEN [o |-> o, null |-> TRUE, val |-> <<>>]
    ELSE
    LET Out(sp) == [o |-> [o EXCEPT !.s.spline = sp], null |-> FALSE,
                    val |-> sp]
    IN  Out(IF Len(o.s.spline) = 0
            THEN [n1 \in 1..(o.M + 1) |->
                    evaluate(o, FAdd(o.xmin, FMul(FInt(n1 - 1), o.DX)))]
            ELSE o.s.spline)

YVecs(NX) == {[j \in 1..NX |-> FInt(1)], [j \in 1..NX |-> FInt(j)]}

EvalXs == {Rat(1, 2), FInt(5)}

Copy(id) ==
    /\ ~Busy /\ id \in 1..Len(objs) /\ Len(objs) < MaxObjs
    /\ \E r \in {CopyCtor(objs[id], heap)} :
           /\ objs' = Append(objs, r.o)
           /\ heap' = r.heap
           /\ ret' = [op |-> "copy", target |-> Len(objs) + 1, src |-> id]
    /\ UNCHANGED <<halted, failed, calls, srch, asm>>

\* The answers of the library and the garbage that matter to a fit of bb.
ApplyChoices(bb, NX) ==
    IF bb.OK
    THEN {[y |-> y, gm |-> F0, sok |-> sok, pick |-> 1] :
             y \in YVecs(NX), sok \in BOOLEAN}
    ELSE {[y |-> <<>>, gm |-> gm, sok |-> TRUE, pick |-> 1] : gm \in GarbageMeans}

\* BSpline *BSplineBase::apply(const float *y)
Apply(id) ==
    /\ ~Busy /\ id \in 1..Len(objs) /\ Len(objs) < MaxObjs
    /\ \E ch \in ApplyChoices(objs[id], Len(heap[objs[id].base].X)) :
          \E r \in {BSplineCtor(objs[id], heap, ch.y, ch.gm, ch.sok, ch.pick)} :
              /\ objs' = Append(objs, r.o)
              /\ heap' = r.heap
              /\ ret' = [op |-> "apply", target |-> Len(objs) + 1, src |-> id,
                         rhs |-> r.rhs, solved |-> r.solved]
              /\ halted' = r.exit
    /\ UNCHANGED <<failed, calls, srch, asm>>

Evaluate(id) ==
    /\ ~Busy /\ id \in 1..Len(objs) /\ objs[id].kind = "spline"
    /\ \E x \in EvalXs :
          ret' = [op |-> "evaluate", target |-> id, x |-> x,
                  val |-> evaluate(objs[id], x)]
    /\ UNCHANGED <<objs, heap, halted, failed, calls, srch, asm>>

Coefficient(id) ==
    /\ ~Busy /\ id \in 1..Len(objs) /\ objs[id].kind = "spline"
    /\ \E n \in {-1, objs[id].M, objs[id].M + 1} :
          ret' = [op |-> "coefficient", target |-> id, n |-> n,
                  val |-> coefficient(objs[id], n)]
    /\ UNCHANGED <<objs, heap, halted, failed, calls, srch, asm>>

Curve(id) ==
    /\ ~Busy /\ id \in 1..Len(objs) /\ objs[id].kind = "spline"
    /\ \E r \in {curve(objs[id])} :
           /\ objs' = [objs EXCEPT ![id] = r.o]
           /\ ret' = [op |-> "curve", target |-> id, null |-> r.null,
                      val |-> r.val]
    /\ UNCHANGED <<heap, halted, failed, calls, srch, asm>>

FitInputs == FitValidInputs \cup {in \in InvalidInputs : in.nx = 0}

\* A configuration and the fits made from it, queried.
NextFit ==
    \/ \E in \in FitInputs : Construct(in)
    \/ \E id \in 1..MaxObjs : Apply(id)
    \/ \E id \in 1..MaxObjs : Evaluate(id)
    \/ \E id \in 1..MaxObjs : Coefficient(id)
    \/ \E id \in 1..MaxObjs : Curve(id)

SpecFit == Init /\ [][NextFit]_vars

\* Two ready configurations to move between.
ShareInputs ==
    {in \in InputsOver({Ramp(3, 1), Ramp(5, 1)}, {F0}, {1}) : in.fok}

\* A configuration, its copies and its fits, each changed in turn.
NextShare ==
    \/ \E in \in ShareInputs : Construct(in)
    \/ \E id \in 1..MaxObjs, in \in ShareInputs : SetDomain(id, in)
    \/ Copy(1)
    \/ Apply(1)
    \/ \E id \in 1..MaxObjs : Nodes(id)
    \/ \E id \in 1..MaxObjs : Evaluate(id)
    \/ \E id \in 1..MaxObjs : Curve(id)

SpecShare == Init /\ [][NextShare]_vars

\* ------------------------------------------------------------- the claims

LastCall == ret.op \in {"construct", "setDomain"}

\* C1: after every setDomain call, the one the constructor makes included,
\* the value returned equals the readiness flag OK; so a call that fails
\* returns false and leaves OK false, also on a configuration that was ready.
C1_ReturnIsOK ==
    LastCall => ret.val = objs[ret.target].OK

Grid(o) == [i \in 1..(o.M + 1) |-> FAdd(o.xmin, FMul(FInt(i - 1), o.DX))]

\* C2: as long as every setDomain call succeeded, nodes() returns exactly
\* M+1 values, the i-th being xmin + i*DX for the current xmin, DX and M, and
\* its size assertion holds.
C2_NodesMatchGrid ==
    (ret.op = "nodes" /\ ~failed) =>
        /\ ret.assertOk
        /\ ret.val = Grid(objs[ret.target])

\* The example of C3: X = [0..9], wavelength 3, boundary type 0.
C3_Case ==
    /\ LastCall
    /\ ret.in.x = Ramp(10, 1) /\ ret.in.nx = 10
    /\ ret.in.wl = FInt(3) /\ ret.in.bc = 0

SampleSet(in) == {in.x[i] : i \in 1..in.nx}

Least(S) == CHOOSE m \in S : \A v \in S : FLe(m, v)

Greatest(S) == CHOOSE m \in S : \A v \in S : FLe(v, m)

\* C4: for valid samples and any boundary type, wavelength 0 runs no grid
\* search and stores M = NX and DX = (xmax - xmin)/NX with xmin and xmax the
\* least and greatest sample; X = [0..9] gives M = 10, DX = 9/10 and the 11
\* nodes 0, 9/10, ..., 9.
C4_NoSearch ==
    /\ (LastCall /\ ret.valid /\ ret.in.wl = F0) =>
          /\ ret.setup /\ ret.ratios = 0
          /\ objs[ret.target].xmin = Least(SampleSet(ret.in))
          /\ objs[ret.target].xmax = Greatest(SampleSet(ret.in))
          /\ objs[ret.target].M = ret.in.nx
          /\ objs[ret.target].DX =
                FDiv(FSub(Greatest(SampleSet(ret.in)), Least(SampleSet(ret.in))),
                     FInt(ret.in.nx))
    /\ (/\ ret.op = "nodes" /\ ret.fresh
        /\ heap[objs[ret.target].base].X = Ramp(10, 1)
        /\ objs[ret.target].waveLength = F0) =>
          /\ objs[ret.target].M = 10 /\ objs[ret.target].DX = Rat(9, 10)
          /\ ret.val = [i \in 1..11 |-> Rat(9 * (i - 1), 10)]

\* The nodes of X = [0..9] without a wavelength, computed by nodes().
C4_Witness ==
    /\ ret.op = "nodes" /\ ret.fresh
    /\ heap[objs[ret.target].base].X = Ramp(10, 1)
    /\ objs[ret.target].waveLength = F0
    /\ Len(ret.val) = 11

\* C5: a fit built from a configuration that is not ready assembles no
\* right-hand side and calls no solve; on it evaluate returns 0, coefficient
\* returns 0 and curve returns the null pointer, and nothing stops the
\* program; coefficient also returns 0 on a ready fit for n < 0 or n > M.
C5_Sentinels ==
    /\ (ret.op = "apply" /\ ~objs[ret.src].OK) =>
          ~ret.rhs /\ ~ret.solved /\ ~halted /\ ~objs[ret.target].OK
    /\ (ret.op = "evaluate" /\ ~objs[ret.target].OK) =>
          ret.val = F0 /\ ~halted
    /\ (ret.op = "coefficient" /\ ~objs[ret.target].OK) =>
          ret.val = F0 /\ ~halted
    /\ (ret.op = "curve" /\ ~objs[ret.target].OK) =>
          ret.null /\ ret.val = <<>> /\ ~halted
    /\ (ret.op = "coefficient"
        /\ (ret.n < 0 \/ ret.n > objs[ret.target].M)) =>
          ret.val = F0

\* evaluate on a fit of five samples whose wavelength exceeds their span,
\* the fit's mean holding a value other than 0.
C5_Witness ==
    /\ ret.op = "evaluate" /\ ~objs[ret.target].OK
    /\ objs[ret.target].mean # F0
    /\ objs[1].NX = 5 /\ objs[1].waveLength = FInt(20)

\* C7: whenever the input passes the validation and Setup succeeds, the grid
\* stored has M >= 1 and DX > 0.
C7_GridPositive ==
    (LastCall /\ ret.valid /\ ret.setup) =>
        /\ objs[ret.target].M >= 1
        /\ FLt(F0, objs[ret.target].DX)

\* C8: an operation changes the object it is called on (or creates) and that
\* object's own storage only: apply leaves the configuration as it was, and
\* evaluate, curve, nodes and setDomain on a fit or a copy leave the original
\* and every other fit as they were.
C8_Frame ==
    [][\A o \in 1..Len(objs) :
          o # ret'.target =>
              /\ objs'[o] = objs[o]
              /\ heap'[objs[o].base] = heap[objs[o].base]]_vars

\* The original configured anew after a fit of it cached its curve, with a
\* second fit beside it.
C8_Witness ==
    /\ Len(objs) = 3
    /\ objs[2].kind = "spline" /\ objs[3].kind = "spline"
    /\ ret.op = "setDomain" /\ ret.target = 1
    /\ objs[1].M # objs[2].M
    /\ Len(objs[2].s.spline) > 0

\* C6: once calculateQ has zeroed the matrix, after the interior fill, after
\* every boundary-correction step and after every sample of addP, the
\* matrix is symmetric and every entry written so far lies within the
\* half-bandwidth 3 (and inside the matrix).
C6_SymmetricBanded ==
    asm.pc \in {"interior", "boundary", "addP", "done"} =>
        /\ \A e \in DOMAIN asm.Q : asm.Q[e] = asm.Q[<<e[2], e[1]>>]
        /\ \A e \in asm.written :
              /\ Abs(e[1] - e[2]) <= 3
              /\ e[1] \in 0..asm.c.M /\ e[2] \in 0..asm.c.M

\* A finished assembly with a penalty term whose matrix holds an entry off
\* the diagonal with both a roughness and a data-fit part.
C6_Witness ==
    /\ asm.pc = "done"
    /\ ~AlphaIsZero(asm.c.alpha)
    /\ \E e \in DOMAIN asm.Q :
          e[1] # e[2] /\ asm.Q[e].q # 0 /\ asm.Q[e].p # F0

\* C9: for a sample in node interval k the outer loop of addP visits exactly
\* the nodes max(0,k-2)..min(M,k+2), and for each such m the inner loop
\* exactly the nodes m+1..min(M,m+3).
C9_Window ==
    (asm.pc \in {"addP", "done"} /\ asm.i > 1 /\ asm.c.DX # F0) =>
        LET W == {m \in 0..asm.c.M :
                    Max(0, asm.k - 2) <= m /\ m <= Min(asm.c.M, asm.k + 2)}
        IN  /\ asm.outer = W
            /\ asm.inner = {e \in W \X (0..asm.c.M) :
                              e[1] < e[2] /\ e[2] <= Min(asm.c.M, e[1] + 3)}

SrchSpan == FSub(srch.xmax, srch.xmin)

\* The inputs C10 is about: 0 < wavelength <= xmax - xmin.
SrchInScope ==
    /\ srch.phase \in {"coarse", "refine", "done", "failed"}
    /\ FLt(F0, srch.wl) /\ FLe(srch.wl, SrchSpan)

====
